---------------------------- MODULE Spec2Model ----------------------------
(***************************************************************************)
(* Model of the news-scraper pipeline: headline normalisation              *)
(* (keyword_frequency.py), tokenisation, lexicon loading and tone scoring  *)
(* (sentiment_tone.py), the daily aggregation (main_scraper.py) and the    *)
(* persisted log handling of the dashboard (main.py).                      *)
(*                                                                         *)
(* A string is a sequence of characters; a character is a one-element      *)
(* TLA+ string, or the code point name of a non-ASCII character.           *)
(***************************************************************************)
EXTENDS Integers, Sequences, FiniteSets, TLC

VARIABLES
    title,      \* the raw headline handed to normalize_title or to score_title
    passes,     \* results of the successive normalize_title calls on title
    trailer,    \* the source attribution appended to title for the second call
    csvColumns, \* the word list file: its column names, in file order
    csvRows,    \* the word list file: its rows, one cell per column
    lexResult,  \* outcome of load_lm_lexicon_csv on the word list file
    lm,         \* the LMLex that score_title scores against
    score,      \* outcome of score_title(title)
    tokens,     \* outcome of tokenize_upper(title)
    full_news,  \* the records the scrapers returned, in the order they were appended
    vader,      \* VADER's compound score of every title
    sortTies,   \* how the build's quicksort leaves rows of equal key
    kf_top_n,   \* the top_n that keyword_frequency is called with
    kf,         \* outcome of keyword_frequency(full_news, top_n)
    scored_df,  \* outcome of add_lm_and_vader on the titles of full_news
    store_data, \* outcome of get_news_and_analyze
    store_again,\* outcome of a second get_news_and_analyze on the same records
    today,      \* the calendar day, counted in days
    remote_file,\* daily_data.jsonl in the GitHub repository: its lines and its blob sha
    local_file, \* daily_data.jsonl beside the dashboard: its lines
    scrapes,    \* how many summaries get_news_and_analyze has returned to the dashboard
    session     \* per browser session, the script run in progress

normVars == <<title, passes, trailer>>
lexVars  == <<csvColumns, csvRows, lexResult>>
toneVars == <<lm, score, tokens>>
aggVars  == <<full_news, vader, sortTies, kf_top_n, kf, scored_df, store_data, store_again>>
dashVars == <<today, remote_file, local_file, scrapes, session>>

vars == <<title, passes, trailer, csvColumns, csvRows, lexResult, lm, score, tokens,
          full_news, vader, sortTies, kf_top_n, kf, scored_df, store_data, store_again,
          today, remote_file, local_file, scrapes, session>>

\* values of the variables a run does not use
NormIdle == title = <<>> /\ passes = <<>> /\ trailer = <<>>
LexIdle  == csvColumns = <<>> /\ csvRows = <<>> /\ lexResult = [pending |-> TRUE]
ToneIdle == lm = <<>> /\ score = [pending |-> TRUE] /\ tokens = [pending |-> TRUE]
AggIdle  ==
    /\ full_news = <<>> /\ vader = <<>> /\ sortTies = "kept" /\ kf_top_n = 30
    /\ kf = [pending |-> TRUE] /\ scored_df = [pending |-> TRUE]
    /\ store_data = [pending |-> TRUE] /\ store_again = [pending |-> TRUE]
DashIdle ==
    /\ today = 0 /\ remote_file = <<>> /\ local_file = <<>> /\ scrapes = 0
    /\ session = <<>>

\* outcome of a call: not made yet, an exception raised, or a value returned
Pending          == [pending |-> TRUE]
Raise(type, msg) == [raised |-> TRUE, type |-> type, msg |-> msg]
Return(v)        == [raised |-> FALSE, value |-> v]

-----------------------------------------------------------------------------
(* Characters *)

CombAcute == "U+0301"   \* COMBINING ACUTE ACCENT
lAcute    == "U+013A"   \* LATIN SMALL LETTER L WITH ACUTE
LAcute    == "U+0139"   \* LATIN CAPITAL LETTER L WITH ACUTE
EnDash    == "U+2013"   \* EN DASH
EmDash    == "U+2014"   \* EM DASH

LowerLetters ==
    <<"a", "b", "c", "d", "e", "f", "g", "h", "i", "j", "k", "l", "m",
      "n", "o", "p", "q", "r", "s", "t", "u", "v", "w", "x", "y", "z">>

UpperLetters ==
    <<"A", "B", "C", "D", "E", "F", "G", "H", "I", "J", "K", "L", "M",
      "N", "O", "P", "Q", "R", "S", "T", "U", "V", "W", "X", "Y", "Z">>

AsciiLower == {LowerLetters[k] : k \in DOMAIN LowerLetters}     \* [a-z]
AsciiUpper == {UpperLetters[k] : k \in DOMAIN UpperLetters}     \* [A-Z]
AsciiDigit == {"0", "1", "2", "3", "4", "5", "6", "7", "8", "9"}

\* \s of the re module
WhiteSpace == {" "}

\* every character the model's strings are made of
Chars ==
    AsciiLower \cup AsciiUpper \cup AsciiDigit \cup WhiteSpace
        \cup {"&", "-", "<", CombAcute, lAcute, LAcute, EnDash, EmDash}

\* str.lower() on one character
LowerTable ==
    [c \in Chars |->
        IF c \in AsciiUpper
        THEN LowerLetters[CHOOSE k \in DOMAIN UpperLetters : UpperLetters[k] = c]
        ELSE IF c = LAcute THEN lAcute ELSE c]

LowerChar(c) == LowerTable[c]

\* str.upper() on one character
UpperTable ==
    [c \in Chars |->
        IF c \in AsciiLower
        THEN UpperLetters[CHOOSE k \in DOMAIN LowerLetters : LowerLetters[k] = c]
        ELSE IF c = lAcute THEN LAcute ELSE c]

UpperChar(c) == UpperTable[c]

\* str.lower() and str.upper()
Lower(s) == [k \in 1..Len(s) |-> LowerChar(s[k])]

Upper(s) == [k \in 1..Len(s) |-> UpperChar(s[k])]

\* \w of the re module on str patterns: alphanumerics (Unicode) and underscore
WordChars == AsciiLower \cup AsciiUpper \cup AsciiDigit \cup {lAcute, LAcute}

\* [A-Za-z0-9] of _WORD_RE
AsciiAlnum == AsciiLower \cup AsciiUpper \cup AsciiDigit

Max(S) == CHOOSE x \in S : \A y \in S : y <= x

Min(S) == CHOOSE x \in S : \A y \in S : x <= y

\* length of the longest run of characters of set cs that starts at s[i]
RunLen(s, i, cs) ==
    Max({n \in 0..(Len(s) - i + 1) : \A k \in i..(i + n - 1) : s[k] \in cs})

-----------------------------------------------------------------------------
(* keyword_frequency.py: normalization helpers *)

\* html.entities.html5 restricted to the names that occur in the model's
\* headlines: these hold '&' only in front of the letters l, t, L, T and hold
\* no ';' and no '#', so only the legacy names lt and LT can occur
html5 == (<<"l", "t">> :> <<"<">>) @@ (<<"L", "T">> :> <<"<">>)

\* [^\t\n\f <&#;] : the characters of a character-reference name
CharrefNameChars == Chars \ {" ", "<", "&"}

\* html._replace_charref for a named reference
replace_charref(name) ==
    IF name \in DOMAIN html5 THEN html5[name]
    ELSE LET xs == {x \in 2..(Len(name) - 1) : SubSeq(name, 1, x) \in DOMAIN html5}
         IN  IF xs # {}
             THEN html5[SubSeq(name, 1, Max(xs))] \o SubSeq(name, Max(xs) + 1, Len(name))
             ELSE <<"&">> \o name

RECURSIVE UnescapeFrom(_, _)
UnescapeFrom(s, i) ==
    IF i > Len(s) THEN <<>>
    ELSE IF s[i] # "&" THEN <<s[i]>> \o UnescapeFrom(s, i + 1)
    ELSE LET n == Min({32, RunLen(s, i + 1, CharrefNameChars)})
         IN  IF n = 0 THEN <<"&">> \o UnescapeFrom(s, i + 1)
             ELSE replace_charref(SubSeq(s, i + 1, i + n)) \o UnescapeFrom(s, i + n + 1)

\* html.unescape
unescape(s) == UnescapeFrom(s, 1)

\* unicodedata.normalize("NFC", s): canonical composition
RECURSIVE NFC(_)
NFC(s) ==
    IF Len(s) = 0 THEN <<>>
    ELSE LET p == NFC(SubSeq(s, 1, Len(s) - 1))
             c == s[Len(s)]
         IN  IF c = CombAcute /\ Len(p) > 0 /\ p[Len(p)] \in {"l", "L"}
             THEN SubSeq(p, 1, Len(p) - 1) \o <<IF p[Len(p)] = "l" THEN lAcute ELSE LAcute>>
             ELSE p \o <<c>>

\* str.strip()
strip(s) ==
    LET keep == {k \in 1..Len(s) : s[k] \notin WhiteSpace}
    IN  IF keep = {} THEN <<>> ELSE SubSeq(s, Min(keep), Max(keep))

\* re.sub(r"\s+", " ", s)
RECURSIVE CollapseSpaces(_)
CollapseSpaces(s) ==
    IF Len(s) = 0 THEN <<>>
    ELSE LET p == CollapseSpaces(SubSeq(s, 1, Len(s) - 1))
             c == s[Len(s)]
         IN  IF c \in WhiteSpace
             THEN IF Len(s) > 1 /\ s[Len(s) - 1] \in WhiteSpace THEN p ELSE p \o <<" ">>
             ELSE p \o <<c>>

fix_unicode(s) == strip(CollapseSpaces(NFC(unescape(s))))

\* the character classes of _SOURCE_TRAILER_RE
DashChars    == {"-", EnDash, EmDash}                   \* [–—-]
TrailerChars == WordChars \cup {" ", "&", "-"}          \* [\w .&’'-]

\* _SOURCE_TRAILER_RE matches s from position i to the end of s:
\* \s* dash \s+ [A-Z] [\w .&’'-]{2,} $
TrailerMatchesAt(s, i) ==
    LET d == i + RunLen(s, i, WhiteSpace)            \* the dash
        w == RunLen(s, d + 1, WhiteSpace)            \* \s+
        u == d + 1 + w                               \* [A-Z]
    IN  /\ d <= Len(s) /\ s[d] \in DashChars
        /\ w >= 1
        /\ u <= Len(s) /\ s[u] \in AsciiUpper
        /\ Len(s) - u >= 2
        /\ \A k \in (u + 1)..Len(s) : s[k] \in TrailerChars

\* _SOURCE_TRAILER_RE.sub("", s).strip(): the leftmost match is removed
strip_trailing_source(s) ==
    LET starts == {i \in 1..Len(s) : TrailerMatchesAt(s, i)}
    IN  IF starts = {} THEN strip(s)
        ELSE strip(SubSeq(s, 1, Min(starts) - 1))

normalize_title(t) == Lower(strip_trailing_source(fix_unicode(t)))

-----------------------------------------------------------------------------
(* keyword_frequency.py: vectorization *)

\* the characters in code point order, the order Python compares strings by
CodeOrder ==
    <<" ", "&", "-", "0", "1", "2", "3", "4", "5", "6", "7", "8", "9", "<">>
        \o UpperLetters \o LowerLetters \o <<LAcute, lAcute, CombAcute, EnDash, EmDash>>

CodeRank == [c \in Chars |-> CHOOSE k \in DOMAIN CodeOrder : CodeOrder[k] = c]

\* a < b for Python strings
StrLess(a, b) ==
    \E k \in 1..(Len(b)) :
        /\ \A j \in 1..(k - 1) : j <= Len(a) /\ a[j] = b[j]
        /\ \/ k = Len(a) + 1
           \/ k <= Len(a) /\ CodeRank[a[k]] < CodeRank[b[k]]

\* sorted(S) for a set of strings
RECURSIVE SortedStrings(_)
SortedStrings(S) ==
    IF S = {} THEN <<>>
    ELSE LET m == CHOOSE x \in S : \A y \in S \ {x} : StrLess(x, y)
         IN  <<m>> \o SortedStrings(S \ {m})

Range(f) == {f[k] : k \in DOMAIN f}

\* the quotient a / b, kept exact as the pair <<a, b>>
Frac(a, b) == <<a, b>>

RECURSIVE SumSeq(_)
SumSeq(q) == IF q = <<>> THEN 0 ELSE Head(q) + SumSeq(Tail(q))

RECURSIVE ProdSeq(_)
ProdSeq(q) == IF q = <<>> THEN 1 ELSE Head(q) * ProdSeq(Tail(q))

\* sklearn's ENGLISH_STOP_WORDS, restricted to the words of the model's headlines
StopWords == {<<"o", "f">>}

\* token_pattern (?u)\b\w\w+\b : the maximal runs of \w of length >= 2
RECURSIVE TokenMatchesFrom(_, _)
TokenMatchesFrom(s, i) ==
    IF i > Len(s) THEN <<>>
    ELSE LET n == RunLen(s, i, WordChars)
         IN  IF n >= 2
             THEN <<SubSeq(s, i, i + n - 1)>> \o TokenMatchesFrom(s, i + n)
             ELSE TokenMatchesFrom(s, i + 1)

\* CountVectorizer's analyzer with lowercase=False, stop_words="english",
\* ngram_range=(1, 2): the tokens without the stop words, then their bigrams
analyze(doc) ==
    LET NotStop(w) == w \notin StopWords
        toks == SelectSeq(TokenMatchesFrom(doc, 1), NotStop)
    IN  toks \o [k \in 1..(Len(toks) - 1) |-> toks[k] \o <<" ">> \o toks[k + 1]]

min_df       == 2       \* documents
max_df       == 7       \* tenths of the number of documents
max_features == 20000

EmptyVocabulary   == "empty vocabulary; perhaps the documents only contain stop words"
MaxDfBelowMinDf   == "max_df corresponds to < documents than min_df"
NoTermsRemain     == "After pruning, no terms remain. Try a lower min_df or a higher max_df."

\* the terms _limit_features keeps: document frequency within [min_df, max_df * n_doc],
\* and of these the max_features terms of highest total count
KeptTerms(feats, vocabulary) ==
    LET n_doc  == Len(feats)
        dfs(t) == Cardinality({d \in DOMAIN feats : t \in Range(feats[d])})
        tfs(t) == SumSeq([d \in DOMAIN feats |->
                            Cardinality({k \in DOMAIN feats[d] : feats[d][k] = t})])
        mask   == {t \in vocabulary : dfs(t) >= min_df /\ 10 * dfs(t) <= max_df * n_doc}
    IN  IF Cardinality(mask) <= max_features THEN mask
        ELSE CHOOSE K \in SUBSET mask :
                /\ Cardinality(K) = max_features
                /\ \A t \in K, u \in mask \ K : tfs(t) >= tfs(u)

\* a fit that lets an empty vocabulary through to the pruning
build_count_matrix_unchecked(titles) ==
    LET feats      == [d \in DOMAIN titles |-> analyze(titles[d])]
        vocabulary == UNION {Range(feats[d]) : d \in DOMAIN feats}
        kept       == KeptTerms(feats, vocabulary)
    IN  IF max_df * Len(titles) < 10 * min_df THEN Raise("ValueError", MaxDfBelowMinDf)
        ELSE IF kept = {} THEN Raise("ValueError", NoTermsRemain)
        ELSE Return([vocab |-> SortedStrings(kept),
                     X |-> [d \in DOMAIN feats |->
                              [t \in kept |->
                                  Cardinality({k \in DOMAIN feats[d] : feats[d][k] = t})]]])

\* CountVectorizer(...).fit_transform(titles) and get_feature_names_out():
\* X[d][t] is the count of term t in document d, vocab the kept terms, sorted
build_count_matrix(titles) ==
    LET feats      == [d \in DOMAIN titles |-> analyze(titles[d])]
        vocabulary == UNION {Range(feats[d]) : d \in DOMAIN feats}
        kept       == KeptTerms(feats, vocabulary)
    IN  IF vocabulary = {} THEN Raise("ValueError", EmptyVocabulary)
        ELSE IF max_df * Len(titles) < 10 * min_df THEN Raise("ValueError", MaxDfBelowMinDf)
        ELSE IF kept = {} THEN Raise("ValueError", NoTermsRemain)
        ELSE Return([vocab |-> SortedStrings(kept),
                     X |-> [d \in DOMAIN feats |->
                              [t \in kept |->
                                  Cardinality({k \in DOMAIN feats[d] : feats[d][k] = t})]]])

-----------------------------------------------------------------------------
(* keyword_frequency.py: aggregation *)

Reverse(q) == [k \in 1..Len(q) |-> q[Len(q) + 1 - k]]

\* a stable ascending sort of q by key
RECURSIVE StableSort(_, _)
StableSort(q, key) ==
    IF q = <<>> THEN <<>>
    ELSE LET m == Min({key[k] : k \in DOMAIN q})
             i == Min({k \in DOMAIN q : key[k] = m})
             rest(f) == [k \in 1..(Len(q) - 1) |-> IF k < i THEN f[k] ELSE f[k + 1]]
         IN  <<q[i]>> \o StableSort(rest(q), rest(key))

\* a sort that leaves rows of equal key in an order that changes between the
\* first and the second aggregation of the records
sort_values_desc_unsettled(q, key, ties) ==
    IF store_data = [pending |-> TRUE]
    THEN Reverse(StableSort(Reverse(q), Reverse(key)))
    ELSE Reverse(StableSort(q, key))

\* sort_values(ascending=False) with the default kind="quicksort", which is not
\* stable: the rows come in descending order of key, and rows of equal key in
\* the order the build's sort leaves them, here either their order in q
\* (ties = "kept") or the reverse of it (ties = "reversed"). numpy's sort keeps
\* the order of equal keys only in arrays of at most 16 elements; the tables of
\* the model stand for the longer tables of a day's headlines
sort_values_desc(q, key, ties) ==
    LET stable == Reverse(StableSort(Reverse(q), Reverse(key)))
    IN  IF ties = "kept" THEN stable
        ELSE Reverse(StableSort(q, key))

head(q, n) == SubSeq(q, 1, Min({n, Len(q)}))

\* str.contains(r"\s")
ContainsSpace(t) == \E k \in DOMAIN t : t[k] \in WhiteSpace

\* shares taken over the counts of the first top_n rows instead of all rows
summarize_terms_top_share(X, vocab, top_n, ties) ==
    LET count(t)     == SumSeq([d \in DOMAIN X |-> X[d][t]])
        term_counts  == sort_values_desc(vocab, [k \in DOMAIN vocab |-> count(vocab[k])], ties)
        top          == head(term_counts, top_n)
        sum          == SumSeq([k \in DOMAIN top |-> count(top[k])])
        total_tokens == IF sum = 0 THEN 1 ELSE sum
        term_df      == [k \in DOMAIN term_counts |->
                            [term  |-> term_counts[k],
                             count |-> count(term_counts[k]),
                             share |-> Frac(count(term_counts[k]), total_tokens)]]
        IsUni(r)     == ~ContainsSpace(r.term)
        IsBi(r)      == ContainsSpace(r.term)
    IN  [top_unigrams   |-> head(SelectSeq(term_df, IsUni), top_n),
         top_bigrams    |-> head(SelectSeq(term_df, IsBi), top_n),
         tidy_all_terms |-> [k \in DOMAIN term_df |->
                                [term  |-> term_df[k].term,
                                 count |-> term_df[k].count,
                                 share |-> term_df[k].share,
                                 ngram |-> IF ContainsSpace(term_df[k].term)
                                           THEN "bigram+" ELSE "unigram"]]]

summarize_terms(X, vocab, top_n, ties) ==
    LET count(t)     == SumSeq([d \in DOMAIN X |-> X[d][t]])
        term_counts  == sort_values_desc(vocab, [k \in DOMAIN vocab |-> count(vocab[k])], ties)
        sum          == SumSeq([k \in DOMAIN vocab |-> count(vocab[k])])
        total_tokens == IF sum = 0 THEN 1 ELSE sum
        term_df      == [k \in DOMAIN term_counts |->
                            [term  |-> term_counts[k],
                             count |-> count(term_counts[k]),
                             share |-> Frac(count(term_counts[k]), total_tokens)]]
        IsUni(r)     == ~ContainsSpace(r.term)
        IsBi(r)      == ContainsSpace(r.term)
    IN  [top_unigrams   |-> head(SelectSeq(term_df, IsUni), top_n),
         top_bigrams    |-> head(SelectSeq(term_df, IsBi), top_n),
         tidy_all_terms |-> [k \in DOMAIN term_df |->
                                [term  |-> term_df[k].term,
                                 count |-> term_df[k].count,
                                 share |-> term_df[k].share,
                                 ngram |-> IF ContainsSpace(term_df[k].term)
                                           THEN "bigram+" ELSE "unigram"]]]

\* records -> non-empty titles -> normalized titles -> count matrix -> top terms;
\* df is the frame of the kept records with their normalized titles
keyword_frequency(records, top_n, ties) ==
    LET NonEmpty(r) == strip(r.title) # <<>>
        kept == SelectSeq(records, NonEmpty)
        df   == [k \in DOMAIN kept |->
                    [title |-> kept[k].title, title_norm |-> normalize_title(kept[k].title)]]
        bcm  == build_count_matrix([k \in DOMAIN df |-> df[k].title_norm])
    IN  IF bcm.raised THEN bcm
        ELSE LET out == summarize_terms(bcm.value.X, bcm.value.vocab, top_n, ties)
             IN  Return([top_unigrams   |-> out.top_unigrams,
                         top_bigrams    |-> out.top_bigrams,
                         tidy_all_terms |-> out.tidy_all_terms,
                         df             |-> df])

-----------------------------------------------------------------------------
(* sentiment_tone.py: tokenization *)

\* _WORD_RE.finditer(s): the maximal runs of [A-Za-z0-9] of length >= 2,
\* from position i on, in order of occurrence
\* the runs of [A-Za-z0-9] of any length, as the pattern without {2,} finds them
RECURSIVE WordMatchesFromOne(_, _)
WordMatchesFromOne(s, i) ==
    IF i > Len(s) THEN <<>>
    ELSE LET n == RunLen(s, i, AsciiAlnum)
         IN  IF n >= 1
             THEN <<SubSeq(s, i, i + n - 1)>> \o WordMatchesFromOne(s, i + n)
             ELSE WordMatchesFromOne(s, i + 1)

RECURSIVE WordMatchesFrom(_, _)
WordMatchesFrom(s, i) ==
    IF i > Len(s) THEN <<>>
    ELSE LET n == RunLen(s, i, AsciiAlnum)
         IN  IF n >= 2
             THEN <<SubSeq(s, i, i + n - 1)>> \o WordMatchesFrom(s, i + n)
             ELSE WordMatchesFrom(s, i + 1)

tokenize_upper(s) ==
    LET ms == WordMatchesFrom(s, 1)
    IN  [k \in 1..Len(ms) |-> Upper(ms[k])]

-----------------------------------------------------------------------------
(* sentiment_tone.py: the LM lexicon *)

Categories == {"negative", "uncertainty", "litigious", "constraining", "positive"}

ColWord         == <<"w", "o", "r", "d">>
ColNegative     == <<"n", "e", "g", "a", "t", "i", "v", "e">>
ColUncertainty  == <<"u", "n", "c", "e", "r", "t", "a", "i", "n", "t", "y">>
ColLitigious    == <<"l", "i", "t", "i", "g", "i", "o", "u", "s">>
ColConstraining == <<"c", "o", "n", "s", "t", "r", "a", "i", "n", "i", "n", "g">>
ColPositive     == <<"p", "o", "s", "i", "t", "i", "v", "e">>

\* the lower-case column name of a category
CategoryColumn(c) ==
    CASE c = "negative"     -> ColNegative
      [] c = "uncertainty"  -> ColUncertainty
      [] c = "litigious"    -> ColLitigious
      [] c = "constraining" -> ColConstraining
      [] c = "positive"     -> ColPositive

\* the names need() is called with, in call order
RequiredColumns ==
    <<ColWord, ColNegative, ColUncertainty, ColLitigious, ColConstraining, ColPositive>>

\* cols = {c.lower(): c for c in df.columns}; cols[name] as the position of
\* that column in the file (a later column replaces an earlier one with the
\* same lower-cased name), 0 when name is not in cols
ColsLookup(columns, name) ==
    LET ks == {k \in DOMAIN columns : Lower(columns[k]) = name}
    IN  IF ks = {} THEN 0 ELSE Max(ks)

MissingColumnsCaseSensitive(columns) ==
    {k \in DOMAIN RequiredColumns :
        \A j \in DOMAIN columns : columns[j] # RequiredColumns[k]}

\* the names for which need() raises
MissingColumns(columns) ==
    {k \in DOMAIN RequiredColumns : ColsLookup(columns, RequiredColumns[k]) = 0}

pickNonZero(rows, col, c_word) ==
    {Upper(rows[r][c_word]) : r \in {q \in DOMAIN rows : rows[q][col] # 0}}

\* set(df.loc[df[colname] > 0, c_word].astype(str).str.upper())
pick(rows, col, c_word) ==
    {Upper(rows[r][c_word]) : r \in {q \in DOMAIN rows : rows[q][col] > 0}}

load_lm_lexicon_csv(columns, rows) ==
    LET missing == MissingColumns(columns)
        c_word  == ColsLookup(columns, ColWord)
    IN  IF missing # {}
        THEN Raise("ValueError", <<"LM column missing", RequiredColumns[Min(missing)]>>)
        ELSE Return([negative     |-> pick(rows, ColsLookup(columns, ColNegative), c_word),
                     uncertainty  |-> pick(rows, ColsLookup(columns, ColUncertainty), c_word),
                     litigious    |-> pick(rows, ColsLookup(columns, ColLitigious), c_word),
                     constraining |-> pick(rows, ColsLookup(columns, ColConstraining), c_word),
                     positive     |-> pick(rows, ColsLookup(columns, ColPositive), c_word)])

-----------------------------------------------------------------------------
(* sentiment_tone.py: LM metrics of one title *)

CountDistinctMembers(toks, set) ==
    Cardinality({toks[k] : k \in DOMAIN toks} \cap set)

\* sum(tok in set for tok in toks)
RECURSIVE CountMembers(_, _)
CountMembers(toks, set) ==
    IF toks = <<>> THEN 0
    ELSE (IF Head(toks) \in set THEN 1 ELSE 0) + CountMembers(Tail(toks), set)

score_title(t, lex) ==
    LET toks  == tokenize_upper(t)
        n     == Max({1, Len(toks)})
        c_neg == CountMembers(toks, lex.negative)
        c_unc == CountMembers(toks, lex.uncertainty)
        c_lit == CountMembers(toks, lex.litigious)
        c_con == CountMembers(toks, lex.constraining)
        c_pos == CountMembers(toks, lex.positive)
    IN  [lm_tokens       |-> n,
         lm_neg          |-> c_neg,
         lm_uncert       |-> c_unc,
         lm_litig        |-> c_lit,
         lm_constr       |-> c_con,
         lm_pos          |-> c_pos,
         lm_neg_share    |-> Frac(c_neg, n),
         lm_uncert_share |-> Frac(c_unc, n),
         lm_litig_share  |-> Frac(c_lit, n),
         lm_constr_share |-> Frac(c_con, n),
         lm_pos_share    |-> Frac(c_pos, n),
         lm_has_neg      |-> IF c_neg > 0 THEN 1 ELSE 0,
         lm_has_uncert   |-> IF c_unc > 0 THEN 1 ELSE 0,
         lm_has_litig    |-> IF c_lit > 0 THEN 1 ELSE 0,
         lm_has_constr   |-> IF c_con > 0 THEN 1 ELSE 0,
         lm_has_pos      |-> IF c_pos > 0 THEN 1 ELSE 0]

\* the columns of a scored row that belong to a category
LmCount(row, c) ==
    CASE c = "negative"     -> row.lm_neg
      [] c = "uncertainty"  -> row.lm_uncert
      [] c = "litigious"    -> row.lm_litig
      [] c = "constraining" -> row.lm_constr
      [] c = "positive"     -> row.lm_pos

LmShare(row, c) ==
    CASE c = "negative"     -> row.lm_neg_share
      [] c = "uncertainty"  -> row.lm_uncert_share
      [] c = "litigious"    -> row.lm_litig_share
      [] c = "constraining" -> row.lm_constr_share
      [] c = "positive"     -> row.lm_pos_share

LmHas(row, c) ==
    CASE c = "negative"     -> row.lm_has_neg
      [] c = "uncertainty"  -> row.lm_has_uncert
      [] c = "litigious"    -> row.lm_has_litig
      [] c = "constraining" -> row.lm_has_constr
      [] c = "positive"     -> row.lm_has_pos

-----------------------------------------------------------------------------
(* sentiment_tone.py: scoring a frame of titles *)

\* add_lm_metrics then add_vader: one row per row of df, in the order of df;
\* polarity[t] is the compound score VADER gives to title t
add_lm_and_vader(df, columns, rows, polarity) ==
    LET lex == load_lm_lexicon_csv(columns, rows)
    IN  IF lex.raised THEN lex
        ELSE Return([k \in DOMAIN df |->
                        [title |-> df[k].title, vader_compound |-> polarity[df[k].title]]
                            @@ score_title(df[k].title, lex.value)])

\* the distinct elements of q in the order of their first occurrence
RECURSIVE FirstOccurrences(_)
FirstOccurrences(q) ==
    IF q = <<>> THEN <<>>
    ELSE LET p == FirstOccurrences(SubSeq(q, 1, Len(q) - 1))
         IN  IF q[Len(q)] \in Range(p) THEN p ELSE Append(p, q[Len(q)])

RECURSIVE Concat(_)
Concat(qs) == IF qs = <<>> THEN <<>> ELSE Head(qs) \o Concat(Tail(qs))

\* per category, pd.Series(Counter).sort_values(ascending=False).head(top_n):
\* the category's words seen in the titles with their numbers of occurrences
top_lm_terms(scored, lex, top_n, ties) ==
    LET toks == Concat([k \in DOMAIN scored |-> tokenize_upper(scored[k].title)])
        InSet(set) == LET Test(x) == x \in set IN SelectSeq(toks, Test)
        counter(set) ==
            LET keys == FirstOccurrences(InSet(set))
            IN  [k \in DOMAIN keys |->
                    [term  |-> keys[k],
                     count |-> Cardinality({j \in DOMAIN toks : toks[j] = keys[k]})]]
        top(set) ==
            LET c == counter(set)
            IN  head(sort_values_desc(c, [k \in DOMAIN c |-> c[k].count], ties), top_n)
    IN  [negative     |-> top(lex.negative),
         uncertainty  |-> top(lex.uncertainty),
         litigious    |-> top(lex.litigious),
         constraining |-> top(lex.constraining),
         positive     |-> top(lex.positive)]

-----------------------------------------------------------------------------
(* main_scraper.py: the daily aggregation *)

\* the label of the last occurrence of the maximum
idxmaxLast(col) == Max({k \in DOMAIN col : col[k] = Max(Range(col))})

\* what Series.idxmax() raises on a frame without rows
EmptyArgmax == "attempt to get argmax of an empty sequence"

\* Series.idxmax(): the label of the first occurrence of the maximum
idxmax(col) == Min({k \in DOMAIN col : col[k] = Max(Range(col))})

\* Series.mean() of integers and of quotients, kept exact
MeanInts(col) == Frac(SumSeq(col), Len(col))

MeanFracs(col) ==
    LET dens == [k \in DOMAIN col |-> col[k][2]]
        P    == ProdSeq(dens)
    IN  Frac(SumSeq([k \in DOMAIN col |-> col[k][1] * (P \div col[k][2])]), P * Len(col))

\* the rows term, count of the top n rows of a top list sorted again by count
TopRecords(top, n, ties) ==
    LET sorted == head(sort_values_desc(top, [k \in DOMAIN top |-> top[k].count], ties), n)
    IN  [k \in DOMAIN sorted |-> [term |-> sorted[k].term, count |-> sorted[k].count]]

\* get_news_and_analyze once the scrapers have filled full_news; kfr and scr
\* are its keyword_frequency_results and its scored frame
get_news_and_analyze(date, kfr, scr, columns, rows, ties) ==
    IF kfr.raised THEN kfr
        ELSE IF scr.raised THEN scr
        ELSE IF scr.value = <<>> THEN Raise("ValueError", EmptyArgmax)
        ELSE LET sc   == scr.value
                 col(F(_)) == [k \in DOMAIN sc |-> F(sc[k])]
                 neg(r) == r.lm_neg
                 pos(r) == r.lm_pos
                 unc(r) == r.lm_uncert
                 lit(r) == r.lm_litig
                 con(r) == r.lm_constr
                 vad(r) == r.vader_compound
                 hneg(r) == r.lm_has_neg
                 hunc(r) == r.lm_has_uncert
                 hpos(r) == r.lm_has_pos
                 sneg(r) == r.lm_neg_share
                 spos(r) == r.lm_pos_share
                 sunc(r) == r.lm_uncert_share
                 slit(r) == r.lm_litig_share
                 scon(r) == r.lm_constr_share
                 most_negative     == sc[idxmax(col(neg))]
                 most_positive     == sc[idxmax(col(pos))]
                 most_uncertain    == sc[idxmax(col(unc))]
                 most_litigious    == sc[idxmax(col(lit))]
                 most_constraining == sc[idxmax(col(con))]
                 tops == top_lm_terms(sc, load_lm_lexicon_csv(columns, rows).value, 25, ties)
             IN  Return(
                 [date |-> date,
                  top_unigrams |-> TopRecords(kfr.value.top_unigrams, 10, ties),
                  top_bigrams  |-> TopRecords(kfr.value.top_bigrams, 10, ties),
                  most_negative              |-> most_negative.title,
                  most_negative_lm_score     |-> most_negative.lm_neg,
                  most_negative_vader_score  |-> most_negative.vader_compound,
                  most_positive              |-> most_positive.title,
                  most_positive_lm_score     |-> most_positive.lm_pos,
                  most_positive_vader_score  |-> most_positive.vader_compound,
                  most_uncertain             |-> most_uncertain.title,
                  most_uncertain_lm_score    |-> most_uncertain.lm_uncert,
                  most_uncertain_vader_score |-> most_uncertain.vader_compound,
                  most_litigious             |-> most_litigious.title,
                  most_litigious_lm_score    |-> most_litigious.lm_litig,
                  most_litigious_vader_score |-> most_litigious.vader_compound,
                  most_constraining             |-> most_constraining.title,
                  most_constraining_lm_score    |-> most_constraining.lm_constr,
                  most_constraining_vader_score |-> most_constraining.vader_compound,
                  vader_mean |-> MeanInts(col(vad)),
                  head_w_neg |-> Frac(100 * SumSeq(col(hneg)), Len(sc)),
                  head_w_unc |-> Frac(100 * SumSeq(col(hunc)), Len(sc)),
                  head_w_pos |-> Frac(100 * SumSeq(col(hpos)), Len(sc)),
                  neg_share_of_tok    |-> MeanFracs(col(sneg)),
                  pos_share_of_tok    |-> MeanFracs(col(spos)),
                  unc_share_of_tok    |-> MeanFracs(col(sunc)),
                  litig_share_of_tok  |-> MeanFracs(col(slit)),
                  constr_share_of_tok |-> MeanFracs(col(scon)),
                  top_lm_negative |-> head(tops.negative, 10),
                  top_lm_positive |-> head(tops.positive, 10)])

-----------------------------------------------------------------------------
(* Normalizer run: normalize_title applied to a headline, then to its own   *)
(* result.                                                                   *)

MaxTitleLen == 4

NormAlphabet == {"&", "l", "t", "L", "T", " ", "-", CombAcute}

StringsUpTo(cs, n) == UNION {[1..k -> cs] : k \in 0..n}

NormInit ==
    /\ title \in StringsUpTo(NormAlphabet, MaxTitleLen)
    /\ passes = <<>>
    /\ trailer = <<>>
    /\ LexIdle /\ ToneIdle /\ AggIdle /\ DashIdle

NormalizeRaw ==
    /\ trailer = <<>>
    /\ passes = <<>>
    /\ passes' = <<normalize_title(title)>>
    /\ UNCHANGED <<title, trailer, lexVars, toneVars, aggVars, dashVars>>

NormalizeAgain ==
    /\ trailer = <<>>
    /\ Len(passes) = 1
    /\ passes' = Append(passes, normalize_title(passes[1]))
    /\ UNCHANGED <<title, trailer, lexVars, toneVars, aggVars, dashVars>>

NormNext == NormalizeRaw \/ NormalizeAgain

SpecNorm == NormInit /\ [][NormNext]_vars

-----------------------------------------------------------------------------
(* Trailer run: normalize_title applied to a headline, then to the headline *)
(* followed by a source attribution.                                        *)

\* a dash, whitespace and a capitalized sequence of words of 3 or more
\* characters: "— Ltl", " — Ltl", " – Tlt", " - Ltl Tl"
Trailers ==
    {<<EmDash, " ", "L", "t", "l">>,
     <<" ", EmDash, " ", "L", "t", "l">>,
     <<" ", EnDash, " ", "T", "l", "t">>,
     <<" ", "-", " ", "L", "t", "l", " ", "T", "l">>}

\* "Fed Hikes Rates" and " — Reuters"
FedHikesRates ==
    <<"F", "e", "d", " ", "H", "i", "k", "e", "s", " ", "R", "a", "t", "e", "s">>

Reuters == <<" ", EmDash, " ", "R", "e", "u", "t", "e", "r", "s">>

TrailerInit ==
    /\ \/ /\ title \in StringsUpTo(NormAlphabet, MaxTitleLen)
          /\ trailer \in Trailers
       \/ /\ title = FedHikesRates
          /\ trailer = Reuters
    /\ passes = <<>>
    /\ LexIdle /\ ToneIdle /\ AggIdle /\ DashIdle

NormalizeHeadline ==
    /\ trailer # <<>>
    /\ passes = <<>>
    /\ passes' = <<normalize_title(title)>>
    /\ UNCHANGED <<title, trailer, lexVars, toneVars, aggVars, dashVars>>

NormalizeWithTrailer ==
    /\ trailer # <<>>
    /\ Len(passes) = 1
    /\ passes' = Append(passes, normalize_title(title \o trailer))
    /\ UNCHANGED <<title, trailer, lexVars, toneVars, aggVars, dashVars>>

TrailerNext == NormalizeHeadline \/ NormalizeWithTrailer

SpecTrailer == TrailerInit /\ [][TrailerNext]_vars

-----------------------------------------------------------------------------
(* Lexicon run: load_lm_lexicon_csv on a word list file.                    *)

MaxLexRows == 2

Capitalize(s) == <<UpperChar(s[1])>> \o Tail(s)

\* a column of the master dictionary that the loader does not ask for
ColSeqNum == <<"S", "e", "q">>

\* a column is absent, spelled in lower case or capitalized
ColumnSpellings(name) == {<<>>, <<name>>, <<Capitalize(name)>>}

Headers ==
    {w \o x \o a \o b \o c \o d \o e :
        w \in ColumnSpellings(ColWord),
        x \in {<<>>, <<ColSeqNum>>},
        a \in ColumnSpellings(ColNegative),
        b \in ColumnSpellings(ColUncertainty),
        c \in ColumnSpellings(ColLitigious),
        d \in ColumnSpellings(ColConstraining),
        e \in ColumnSpellings(ColPositive)}

LexWords == {<<"a", "b">>, <<"A", "b">>, <<"c", "d">>}

\* the category cells of a row: 0, a year (here 1) or a negated year (here -1);
\* rows with at most one category marked, and a row marked in two categories
LexMarks ==
    {m \in [Categories -> {-1, 0, 1}] :
        \/ Cardinality({c \in Categories : m[c] # 0}) <= 1
        \/ /\ m["negative"] = 1 /\ m["litigious"] = 1
           /\ Cardinality({c \in Categories : m[c] # 0}) = 2}

\* the cells of a row with word w and category cells m under the header h
RowCells(h, w, m) ==
    [k \in DOMAIN h |->
        IF Lower(h[k]) = ColWord THEN w
        ELSE IF \E c \in Categories : CategoryColumn(c) = Lower(h[k])
             THEN m[CHOOSE c \in Categories : CategoryColumn(c) = Lower(h[k])]
             ELSE 0]

FullHeader == Headers \cap
    {<<ColWord, ColSeqNum, ColNegative, ColUncertainty, ColLitigious,
       ColConstraining, ColPositive>>,
     <<Capitalize(ColWord), Capitalize(ColNegative), Capitalize(ColUncertainty),
       Capitalize(ColLitigious), Capitalize(ColConstraining), Capitalize(ColPositive)>>}

LexInit ==
    /\ csvColumns \in Headers
    /\ \E n \in 0..MaxLexRows :
        /\ csvColumns \in FullHeader \/ n = 0
        /\ \E ws \in [1..n -> LexWords], ms \in [1..n -> LexMarks] :
            csvRows = [r \in 1..n |-> RowCells(csvColumns, ws[r], ms[r])]
    /\ lexResult = Pending
    /\ NormIdle /\ ToneIdle /\ AggIdle /\ DashIdle

LoadLexicon ==
    /\ lexResult = Pending
    /\ lexResult' = load_lm_lexicon_csv(csvColumns, csvRows)
    /\ UNCHANGED <<csvColumns, csvRows, normVars, toneVars, aggVars, dashVars>>

LexNext == LoadLexicon

SpecLex == LexInit /\ [][LexNext]_vars

-----------------------------------------------------------------------------
(* Tone run: score_title on one title against one lexicon.                  *)

MaxToneLen == 5

ToneAlphabet == {"a", "B", " "}

ToneLexicons ==
    {[negative |-> n, uncertainty |-> u, litigious |-> l, constraining |-> c, positive |-> p] :
        n \in {{}, {<<"A", "B">>}, {<<"A", "B">>, <<"B", "B">>}},
        u \in {{}, {<<"A", "B">>}, {<<"B", "B">>}},
        l \in {{}, {<<"B", "B">>}},
        c \in {{}, {<<"A", "A">>}},
        p \in {{}, {<<"B", "A">>}}}

ToneInit ==
    /\ title \in StringsUpTo(ToneAlphabet, MaxToneLen)
    /\ passes = <<>>
    /\ trailer = <<>>
    /\ lm \in ToneLexicons
    /\ score = Pending
    /\ tokens = Pending
    /\ LexIdle /\ AggIdle /\ DashIdle

ScoreTitle ==
    /\ score = Pending
    /\ score' = Return(score_title(title, lm))
    /\ UNCHANGED <<lm, tokens, normVars, lexVars, aggVars, dashVars>>

ToneNext == ScoreTitle

SpecTone == ToneInit /\ [][ToneNext]_vars

-----------------------------------------------------------------------------
(* Tokenizer run: tokenize_upper on one string.                             *)

MaxTokLen == 5

\* a lower-case and an upper-case letter, a digit, two separators and a
\* letter outside ASCII
TokAlphabet == {"a", "B", "9", " ", "-", lAcute}

\* "a bb c99 d"
TokExample == <<"a", " ", "b", "b", " ", "c", "9", "9", " ", "d">>

TokInit ==
    /\ title \in StringsUpTo(TokAlphabet, MaxTokLen) \cup {TokExample}
    /\ passes = <<>>
    /\ trailer = <<>>
    /\ lm = <<>>
    /\ score = Pending
    /\ tokens = Pending
    /\ LexIdle /\ AggIdle /\ DashIdle

Tokenize ==
    /\ tokens = Pending
    /\ tokens' = Return(tokenize_upper(title))
    /\ UNCHANGED <<lm, score, normVars, lexVars, aggVars, dashVars>>

TokNext == Tokenize

SpecTokens == TokInit /\ [][TokNext]_vars

-----------------------------------------------------------------------------
(* Aggregation runs: keyword_frequency and get_news_and_analyze on the      *)
(* records of one day.                                                      *)

MaxBatch == 4

\* the titles the scrapers return: stripped strings; skimfeed's may be empty
AggTitles ==
    << <<>>,
       <<"a", "b", " ", "c", "d">>,
       <<"c", "d", " ", "a", "b">>,
       <<"A", "b", " ", "o", "f", " ", "a", "b">>,
       <<"c", "d">>,
       <<"-", " ", "A", "b", "c">> >>

\* the word list file Loughran-McDonald_MasterDictionary_1993-2024.csv
AggHeader ==
    <<ColWord, ColSeqNum, ColNegative, ColUncertainty, ColLitigious,
      ColConstraining, ColPositive>>

Marked(S) == [c \in Categories |-> IF c \in S THEN 2009 ELSE 0]

AggFiles ==
    { << RowCells(AggHeader, <<"A", "B">>, Marked({"negative", "litigious"})),
         RowCells(AggHeader, <<"C", "D">>, Marked({"uncertainty"})) >>,
      << RowCells(AggHeader, <<"A", "B">>, Marked({"positive"})),
         RowCells(AggHeader, <<"C", "D">>, Marked({"negative", "constraining"})),
         RowCells(AggHeader, <<"A", "B", "C">>, Marked({"negative"})) >> }

\* compound scores, in hundredths
Polarities ==
    {[t \in Range(AggTitles) |->
        25 * (CHOOSE k \in DOMAIN AggTitles : AggTitles[k] = t) - 75]}

AggInit ==
    /\ \E n \in 0..MaxBatch :
        \E ts \in [1..n -> Range(AggTitles)] :
            full_news = [k \in 1..n |-> [title |-> ts[k]]]
    /\ csvColumns = AggHeader
    /\ csvRows \in AggFiles
    /\ lexResult = Pending
    /\ vader \in Polarities
    /\ sortTies \in {"kept", "reversed"}
    /\ kf = Pending /\ scored_df = Pending /\ store_data = Pending
    /\ store_again = Pending
    /\ NormIdle /\ ToneIdle /\ DashIdle

TermsInit == AggInit /\ kf_top_n \in {1, 2, 30}

DailyInit == AggInit /\ kf_top_n = 30

KeywordFrequency ==
    /\ kf = Pending
    /\ kf' = keyword_frequency(full_news, kf_top_n, sortTies)
    /\ UNCHANGED <<full_news, vader, sortTies, kf_top_n, scored_df, store_data, store_again,
                   normVars, lexVars, toneVars, dashVars>>

\* the frame of the titles of full_news is scored only when keyword_frequency returned
GetNewsAndAnalyze ==
    /\ store_data = Pending
    /\ LET kfr == keyword_frequency(full_news, 30, sortTies)
           scr == add_lm_and_vader(full_news, csvColumns, csvRows, vader)
       IN  /\ kf' = kfr
           /\ scored_df' = IF kfr.raised THEN Pending ELSE scr
           /\ store_data' = get_news_and_analyze("today", kfr, scr, csvColumns, csvRows, sortTies)
    /\ UNCHANGED <<full_news, vader, sortTies, kf_top_n, store_again,
                   normVars, lexVars, toneVars, dashVars>>

\* the aggregation runs once more on the same records, word list file and day,
\* on the same build
GetNewsAndAnalyzeAgain ==
    /\ store_data # Pending
    /\ store_again = Pending
    /\ LET kfr == keyword_frequency(full_news, 30, sortTies)
           scr == add_lm_and_vader(full_news, csvColumns, csvRows, vader)
       IN  store_again' = get_news_and_analyze("today", kfr, scr, csvColumns, csvRows, sortTies)
    /\ UNCHANGED <<full_news, vader, sortTies, kf_top_n, kf, scored_df, store_data,
                   normVars, lexVars, toneVars, dashVars>>

TermsNext == KeywordFrequency

DailyNext == GetNewsAndAnalyze

SpecTerms == TermsInit /\ [][TermsNext]_vars

SpecDaily == DailyInit /\ [][DailyNext]_vars

RerunNext == GetNewsAndAnalyze \/ GetNewsAndAnalyzeAgain

SpecRerun == DailyInit /\ [][RerunNext]_vars

-----------------------------------------------------------------------------
(* main.py: the dashboard script and the persisted log daily_data.jsonl.    *)
(* A line of the log is a summary record or a line json.loads rejects; of   *)
(* a summary the log handling reads the date and the first top bigram, and  *)
(* n tells the summaries of one date apart.                                 *)

None      == [none |-> TRUE]
Malformed == [malformed |-> TRUE]

Summary(date, n, bigrams) == [date |-> date, n |-> n, top_bigrams |-> bigrams]

\* json.loads(line) returns an object
IsRecord(line) == "date" \in DOMAIN line

\* the lines of content before its first malformed line
UpToMalformed(content) ==
    SubSeq(content, 1, Min({k \in DOMAIN content : ~IsRecord(content[k])}
                            \cup {Len(content) + 1}) - 1)

\* a lookup that gives up at the first malformed line instead of skipping it
load_today_until_malformed(file, date) ==
    LET read == UpToMalformed(file.content)
        hits == {k \in DOMAIN read : read[k].date = date}
    IN  [stored_data |-> IF hits = {} THEN None ELSE read[Min(hits)],
         content     |-> file.content,
         data        |-> [sha |-> file.sha]]

\* GET of the remote file: the first well-formed line whose date is date,
\* the whole content and the response with the blob sha
load_today_or_false(file, date) ==
    LET hits == {k \in DOMAIN file.content :
                    IsRecord(file.content[k]) /\ file.content[k].date = date}
    IN  [stored_data |-> IF hits = {} THEN None ELSE file.content[Min(hits)],
         content     |-> file.content,
         data        |-> [sha |-> file.sha]]

\* PUT of updated_file with the sha read before: the repository takes the new
\* content only when sha is still the sha of the file
put_contents(file, updated_file, sha) ==
    IF sha = file.sha THEN [content |-> updated_file, sha |-> file.sha + 1]
    ELSE file

\* the forced branch's rewrite of the local file: every line goes through
\* json.loads, a record dated date is replaced by stored, no line is added
rewrite_local(lines, date, stored) ==
    IF \E k \in DOMAIN lines : ~IsRecord(lines[k])
    THEN Raise("JSONDecodeError", "Expecting value")
    ELSE Return([k \in DOMAIN lines |->
                    IF lines[k].date = date THEN stored ELSE lines[k]])

\* the history tab's scan: malformed lines skipped, of every record the
\* term of its first top bigram
history_scan(content) ==
    LET records == SelectSeq(content, IsRecord)
    IN  IF \E k \in DOMAIN records : records[k].top_bigrams = <<>>
        THEN Raise("IndexError", "list index out of range")
        ELSE Return([k \in DOMAIN records |-> records[k].top_bigrams[1].term])

\* date="", the date of no record
NoDate == -1

StatusLoaded  == "Loaded today's record from JSONL."
StatusSaved   == "Scraping and analysis complete. Data saved to JSONL."
StatusUpdated == "Re-scrape and analysis complete. Data updated in JSONL."

-----------------------------------------------------------------------------
(* Dashboard runs: script runs of several browser sessions over the days.   *)

MaxDay     == 2
MaxScrapes == 2

Sessions == {"s1", "s2"}

\* the top_bigrams of a summary: none survived the filter, or some did
TopBigrams == {<<>>, <<[term |-> "ab cd", count |-> 2]>>}

Stored(date) == Summary(date, 0, <<[term |-> "ab cd", count |-> 2]>>)

\* logs written before the first run: no date twice, no date after the first day
InitialLogs ==
    {<<>>, <<Stored(0)>>, <<Stored(1)>>, <<Stored(0), Stored(1)>>,
     <<Malformed, Stored(1)>>, <<Stored(0), Malformed>>}

NoRun ==
    [pc |-> "idle", force_rescrape |-> FALSE, today |-> 0, stored_data |-> None,
     content |-> <<>>, sha |-> 0, status |-> "", error |-> ""]

DashInit ==
    /\ today = 1
    /\ \E c \in InitialLogs : remote_file = [content |-> c, sha |-> 0]
    /\ local_file \in InitialLogs
    /\ scrapes = 0
    /\ session = [s \in Sessions |-> NoRun]
    /\ NormIdle /\ LexIdle /\ ToneIdle /\ AggIdle

\* the script starts: today is read, and without force the remote log is
\* searched for today's record
StartRun(s, force) ==
    /\ session[s].pc = "idle"
    /\ LET got == load_today_or_false(remote_file, today)
       IN  session' = [session EXCEPT ![s] =
             IF force
             THEN [NoRun EXCEPT !.pc = "scrape", !.force_rescrape = TRUE, !.today = today]
             ELSE IF got.stored_data # None
             THEN [NoRun EXCEPT !.pc = "history", !.today = today,
                                !.stored_data = got.stored_data,
                                !.content = got.content, !.sha = got.data.sha,
                                !.status = StatusLoaded]
             ELSE [NoRun EXCEPT !.pc = "scrape", !.today = today,
                                !.content = got.content, !.sha = got.data.sha]]
    /\ UNCHANGED <<today, remote_file, local_file, scrapes, normVars, lexVars, toneVars, aggVars>>

\* get_news_and_analyze raises: the script stops, nothing is written
ScrapeFails(s) ==
    /\ session[s].pc = "scrape"
    /\ session' = [session EXCEPT ![s].pc = "failed", ![s].error = "ValueError"]
    /\ UNCHANGED <<today, remote_file, local_file, scrapes, normVars, lexVars, toneVars, aggVars>>

\* get_news_and_analyze returns a summary dated by the day of the scrape, and
\* the summary is appended to the content read before and PUT with its sha;
\* the response is not looked at
ScrapeAndAppend(s) ==
    /\ session[s].pc = "scrape"
    /\ ~session[s].force_rescrape
    /\ scrapes < MaxScrapes
    /\ \E b \in TopBigrams :
        LET stored == Summary(today, scrapes + 1, b)
        IN  /\ remote_file' = put_contents(remote_file,
                                           Append(session[s].content, stored),
                                           session[s].sha)
            /\ session' = [session EXCEPT ![s].pc = "history",
                                          ![s].stored_data = stored,
                                          ![s].status = StatusSaved]
    /\ scrapes' = scrapes + 1
    /\ UNCHANGED <<today, local_file, normVars, lexVars, toneVars, aggVars>>

\* get_news_and_analyze returns a summary, and the local file is rewritten
\* into a temporary file that replaces it when every line was read
ScrapeAndRewrite(s) ==
    /\ session[s].pc = "scrape"
    /\ session[s].force_rescrape
    /\ scrapes < MaxScrapes
    /\ \E b \in TopBigrams :
        LET stored == Summary(today, scrapes + 1, b)
            out    == rewrite_local(local_file, session[s].today, stored)
        IN  IF out.raised
            THEN /\ local_file' = local_file
                 /\ session' = [session EXCEPT ![s].pc = "failed",
                                               ![s].stored_data = stored,
                                               ![s].error = out.type]
            ELSE /\ local_file' = out.value
                 /\ session' = [session EXCEPT ![s].pc = "history",
                                               ![s].stored_data = stored,
                                               ![s].status = StatusUpdated]
    /\ scrapes' = scrapes + 1
    /\ UNCHANGED <<today, remote_file, normVars, lexVars, toneVars, aggVars>>

\* the history tab reads the remote log again and scans it
HistoryTab(s) ==
    /\ session[s].pc = "history"
    /\ LET got == load_today_or_false(remote_file, NoDate)
           out == history_scan(got.content)
       IN  session' = [session EXCEPT
                ![s].pc    = IF out.raised THEN "failed" ELSE "done",
                ![s].error = IF out.raised THEN out.type ELSE ""]
    /\ UNCHANGED <<today, remote_file, local_file, scrapes, normVars, lexVars, toneVars, aggVars>>

\* the script has ended; the next interaction starts it again
EndRun(s) ==
    /\ session[s].pc \in {"done", "failed"}
    /\ session' = [session EXCEPT ![s] = NoRun]
    /\ UNCHANGED <<today, remote_file, local_file, scrapes, normVars, lexVars, toneVars, aggVars>>

Midnight ==
    /\ today < MaxDay
    /\ today' = today + 1
    /\ UNCHANGED <<remote_file, local_file, scrapes, session, normVars, lexVars, toneVars, aggVars>>

DashNext ==
    \/ \E s \in Sessions, force \in BOOLEAN : StartRun(s, force)
    \/ \E s \in Sessions : ScrapeFails(s)
    \/ \E s \in Sessions : ScrapeAndAppend(s)
    \/ \E s \in Sessions : ScrapeAndRewrite(s)
    \/ \E s \in Sessions : HistoryTab(s)
    \/ \E s \in Sessions : EndRun(s)
    \/ Midnight

SpecDash == DashInit /\ [][DashNext]_vars

-----------------------------------------------------------------------------
(* C1: normalizing an already normalized headline gives the same string:    *)
(* normalize_title(normalize_title(s)) = normalize_title(s) for every s.    *)
C1_Idempotent == Len(passes) = 2 => passes[2] = passes[1]

-----------------------------------------------------------------------------
\* the records of full_news with a title that is not empty after strip()
UsableRecords == LET NonEmpty(r) == strip(r.title) # <<>> IN SelectSeq(full_news, NonEmpty)

\* the error that stops the aggregation of a batch without usable titles: the
\* ValueError of the vectorizer's fit on no documents
IsEmptyBatchError(r) ==
    /\ r # Pending
    /\ r.raised
    /\ r.type = "ValueError"
    /\ r.msg = EmptyVocabulary

(* C2: when no record of the batch has a usable title, get_news_and_analyze *)
(* fails with the empty-batch error (the ValueError of the vectorizer's fit *)
(* on no documents), the frame is never scored, so no idxmax is taken over  *)
(* zero rows, and no summary record is returned.                            *)
C2_EmptyBatchFails ==
    (store_data # Pending /\ UsableRecords = <<>>) =>
        /\ IsEmptyBatchError(store_data)
        /\ IsEmptyBatchError(kf)
        /\ scored_df = Pending
        /\ "value" \notin DOMAIN store_data

\* a batch of two records, both with an empty title, was refused
C2_Witness ==
    /\ Len(full_news) = 2
    /\ UsableRecords = <<>>
    /\ IsEmptyBatchError(store_data)
    /\ scored_df = Pending

-----------------------------------------------------------------------------
\* the fields of a summary record that belong to a category
MostTitle(rec, c) ==
    CASE c = "negative"     -> rec.most_negative
      [] c = "uncertainty"  -> rec.most_uncertain
      [] c = "litigious"    -> rec.most_litigious
      [] c = "constraining" -> rec.most_constraining
      [] c = "positive"     -> rec.most_positive

MostLmScore(rec, c) ==
    CASE c = "negative"     -> rec.most_negative_lm_score
      [] c = "uncertainty"  -> rec.most_uncertain_lm_score
      [] c = "litigious"    -> rec.most_litigious_lm_score
      [] c = "constraining" -> rec.most_constraining_lm_score
      [] c = "positive"     -> rec.most_positive_lm_score

MostVaderScore(rec, c) ==
    CASE c = "negative"     -> rec.most_negative_vader_score
      [] c = "uncertainty"  -> rec.most_uncertain_vader_score
      [] c = "litigious"    -> rec.most_litigious_vader_score
      [] c = "constraining" -> rec.most_constraining_vader_score
      [] c = "positive"     -> rec.most_positive_vader_score

Returned(r) == r # Pending /\ ~r.raised

(* C3: a record whose title is empty or whitespace-only is in neither       *)
(* branch: the term-frequency frame has exactly the usable records, no row  *)
(* of the scored frame has an empty title, no most-<category> headline is   *)
(* an empty title, and the mean polarity and the percent-of-headlines       *)
(* metrics are taken over the number of usable records.                     *)
C3_EmptyTitlesExcluded ==
    /\ Returned(kf) =>
        /\ Len(kf.value.df) = Len(UsableRecords)
        /\ \A k \in DOMAIN kf.value.df : strip(kf.value.df[k].title) # <<>>
    /\ Returned(scored_df) =>
        /\ Len(scored_df.value) = Len(UsableRecords)
        /\ \A k \in DOMAIN scored_df.value : strip(scored_df.value[k].title) # <<>>
    /\ Returned(store_data) =>
        /\ \A c \in Categories : strip(MostTitle(store_data.value, c)) # <<>>
        /\ store_data.value.vader_mean[2] = Len(UsableRecords)
        /\ store_data.value.head_w_neg[2] = Len(UsableRecords)
        /\ store_data.value.head_w_unc[2] = Len(UsableRecords)
        /\ store_data.value.head_w_pos[2] = Len(UsableRecords)

-----------------------------------------------------------------------------
(* C4: for each of the five categories the most-<category> headline is the  *)
(* row of the scored frame with the maximum category count, the first such  *)
(* row in input order when several rows share the maximum, and the lm score *)
(* and the compound score stored next to it are those of that row.          *)
C4_MostCategory ==
    Returned(store_data) =>
        LET sc == scored_df.value
        IN  \A c \in Categories :
                \E k \in DOMAIN sc :
                    /\ \A j \in DOMAIN sc : LmCount(sc[j], c) <= LmCount(sc[k], c)
                    /\ \A j \in 1..(k - 1) : LmCount(sc[j], c) < LmCount(sc[k], c)
                    /\ MostTitle(store_data.value, c) = sc[k].title
                    /\ MostLmScore(store_data.value, c) = LmCount(sc[k], c)
                    /\ MostVaderScore(store_data.value, c) = sc[k].vader_compound

\* two different headlines share the maximum negative count, which is above
\* zero, and the first of them was selected with its own compound score
C4_Witness ==
    /\ Returned(store_data)
    /\ LET sc == scored_df.value
       IN  \E i, j \in DOMAIN sc :
            /\ i < j
            /\ sc[i].title # sc[j].title
            /\ sc[i].vader_compound # sc[j].vader_compound
            /\ sc[i].lm_neg > 0
            /\ sc[i].lm_neg = sc[j].lm_neg
            /\ \A k \in DOMAIN sc : sc[k].lm_neg <= sc[i].lm_neg
            /\ \A k \in 1..(i - 1) : sc[k].lm_neg < sc[i].lm_neg
            /\ store_data.value.most_negative = sc[i].title
            /\ store_data.value.most_negative_vader_score = sc[i].vader_compound

-----------------------------------------------------------------------------
\* no record of the log shares its date with another record of the log
OneRecordPerDate(lines) ==
    \A i, j \in DOMAIN lines :
        (i < j /\ IsRecord(lines[i]) /\ IsRecord(lines[j])) => lines[i].date # lines[j].date

(* C5: whatever runs the sessions make, forced or not, the persisted log,   *)
(* remote and local, never holds two records with the same date.            *)
C5_OneRecordPerDate ==
    /\ OneRecordPerDate(remote_file.content)
    /\ OneRecordPerDate(local_file)

\* the remote log holds a record appended today, a run without force found
\* it, and a forced run replaced today's record of the local log
C5_Witness ==
    /\ \E k \in DOMAIN remote_file.content :
        /\ IsRecord(remote_file.content[k])
        /\ remote_file.content[k].n > 0
        /\ remote_file.content[k].date = today
        /\ \E s \in Sessions :
            /\ session[s].status = StatusLoaded
            /\ session[s].stored_data = remote_file.content[k]
    /\ \E k \in DOMAIN local_file :
        /\ IsRecord(local_file[k])
        /\ local_file[k].n > 0
        /\ local_file[k].date = today

(* C6: once a forced run has reported its success, the persisted log holds  *)
(* a record for the run's day that is the summary the run computed (or the  *)
(* summary of a later run), and a lookup without force finds it, whether or *)
(* not the log had a record for that day before.                            *)
C6_ForceStoresNew ==
    \A s \in Sessions :
        session[s].status = StatusUpdated =>
            /\ \E k \in DOMAIN local_file :
                /\ IsRecord(local_file[k])
                /\ local_file[k].date = session[s].stored_data.date
                /\ local_file[k].n >= session[s].stored_data.n
            /\ LET got == load_today_or_false(remote_file, session[s].stored_data.date)
               IN  /\ got.stored_data # None
                   /\ got.stored_data.n >= session[s].stored_data.n

-----------------------------------------------------------------------------
(* C7: with toks = tokenize_upper(title) and n = max(1, len(toks)), every   *)
(* category's count is the number of token occurrences in toks that are in  *)
(* the category's set, its share is count / n and lies in [0, 1], and its   *)
(* has-flag is 1 exactly when count > 0; a title without tokens has count   *)
(* 0, share 0 and flag 0 in every category.                                 *)
C7_ToneScoring ==
    score # Pending =>
        LET toks == tokenize_upper(title)
            n    == IF Len(toks) = 0 THEN 1 ELSE Len(toks)
            row  == score.value
        IN  /\ row.lm_tokens = n
            /\ \A c \in Categories :
                LET occ == {k \in DOMAIN toks : toks[k] \in lm[c]}
                IN  /\ LmCount(row, c) = Cardinality(occ)
                    /\ LmShare(row, c) = <<Cardinality(occ), n>>
                    /\ 0 <= LmShare(row, c)[1]
                    /\ LmShare(row, c)[1] <= LmShare(row, c)[2]
                    /\ LmHas(row, c) \in {0, 1}
                    /\ LmHas(row, c) = 1 <=> Cardinality(occ) > 0
                    /\ toks = <<>> =>
                        /\ LmCount(row, c) = 0
                        /\ LmShare(row, c)[1] = 0
                        /\ LmHas(row, c) = 0

\* a title whose token occurs twice and is in the sets of two categories
C7_Witness ==
    /\ score # Pending
    /\ score.value.lm_neg = 2
    /\ score.value.lm_uncert = 2
    /\ score.value.lm_tokens = 2
    /\ score.value.lm_pos = 0

-----------------------------------------------------------------------------
\* the ValueError that need() raises for a missing column
IsSchemaError(r) ==
    /\ r # Pending
    /\ r.raised
    /\ r.type = "ValueError"
    /\ r.msg[1] = "LM column missing"

\* name is no column of the file, whatever the case of the file's column names
AbsentColumn(name) == \A k \in DOMAIN csvColumns : Lower(csvColumns[k]) # name

-----------------------------------------------------------------------------
\* the position of the column whose lower-cased name is name
ColumnNamed(name) == CHOOSE k \in DOMAIN csvColumns : Lower(csvColumns[k]) = name

\* the cell of row r in the column whose lower-cased name is name
Cell(r, name) == csvRows[r][ColumnNamed(name)]

(* C9: the upper-cased form of a word of the file is in the set of category *)
(* c if and only if some row for that word (rows whose words differ only in *)
(* case are rows for the same word) has a value above zero in column c, and *)
(* every member of every set is the upper-cased word of such a row, hence   *)
(* an upper-case string.                                                    *)
C9_Membership ==
    (lexResult # Pending /\ ~lexResult.raised) =>
        LET w == ColumnNamed(ColWord)
            words == [r \in DOMAIN csvRows |-> Upper(csvRows[r][w])]
        IN  \A c \in Categories :
                LET set == lexResult.value[c]
                    k   == ColumnNamed(CategoryColumn(c))
                    marked(u) == \E q \in DOMAIN csvRows :
                                    words[q] = u /\ csvRows[q][k] > 0
                IN  /\ \A r \in DOMAIN csvRows : words[r] \in set <=> marked(words[r])
                    /\ \A u \in set : marked(u) /\ u = Upper(u)
                    /\ \A u \in set : \A j \in DOMAIN u : u[j] \notin AsciiLower

\* two rows spell one word in different case; only one of them marks it negative
C9_Witness ==
    /\ lexResult # Pending
    /\ ~lexResult.raised
    /\ Len(csvRows) = 2
    /\ Cell(1, ColWord) = <<"a", "b">>
    /\ Cell(2, ColWord) = <<"A", "b">>
    /\ Cell(1, ColNegative) = -1
    /\ Cell(2, ColNegative) = 1
    /\ lexResult.value.negative = {<<"A", "B">>}
    /\ lexResult.value.positive = {}

-----------------------------------------------------------------------------
\* row a comes before row b: higher count, or equal count and lesser term
RanksBefore(a, b) ==
    \/ a.count > b.count
    \/ a.count = b.count /\ StrLess(a.term, b.term)

\* top is the first n rows of the rows of subset in the order RanksBefore
IsTopOf(top, subset, n) ==
    /\ Len(top) = Min({n, Cardinality(subset)})
    /\ \A k \in DOMAIN top : [term |-> top[k].term, count |-> top[k].count] \in subset
    /\ \A i, j \in DOMAIN top : i < j => RanksBefore(top[i], top[j])
    /\ \A r \in subset :
        (\A k \in DOMAIN top : top[k].term # r.term) =>
            \A k \in DOMAIN top : RanksBefore(top[k], r)

(* C10: each top list of summarize_terms holds the first top_n rows of its  *)
(* subset of the term table (terms without whitespace, terms with           *)
(* whitespace) in descending order of count, rows of equal count in         *)
(* ascending order of the term string, and so at most top_n rows.           *)
C10_TopLists ==
    Returned(kf) =>
        LET all == {[term |-> r.term, count |-> r.count] :
                        r \in Range(kf.value.tidy_all_terms)}
            uni == {r \in all : ~ContainsSpace(r.term)}
            bi  == {r \in all : ContainsSpace(r.term)}
        IN  /\ IsTopOf(kf.value.top_unigrams, uni, kf_top_n)
            /\ IsTopOf(kf.value.top_bigrams, bi, kf_top_n)
            /\ Len(kf.value.top_unigrams) <= kf_top_n
            /\ Len(kf.value.top_bigrams) <= kf_top_n

-----------------------------------------------------------------------------
(* C11: on a batch without titles the term-frequency engine                 *)
(* (build_count_matrix, then summarize_terms) raises no error and returns   *)
(* an empty term table and empty top lists.                                 *)
C11_EmptyBatchEmptyTable ==
    (kf # Pending /\ UsableRecords = <<>>) =>
        /\ Returned(kf)
        /\ kf.value.tidy_all_terms = <<>>
        /\ kf.value.top_unigrams = <<>>
        /\ kf.value.top_bigrams = <<>>

-----------------------------------------------------------------------------
(* C12: for every batch with at least one record of non-empty title, also   *)
(* batches of one or two headlines and batches where no term occurs in two  *)
(* headlines, get_news_and_analyze raises no error and returns a summary.   *)
C12_TotalOnNonEmpty ==
    (store_data # Pending /\ UsableRecords # <<>>) =>
        /\ ~store_data.raised
        /\ "value" \in DOMAIN store_data

-----------------------------------------------------------------------------
\* the maximal runs of ASCII letters and digits in s, as pairs <<first, last>>
MaximalRuns(s) ==
    {r \in (DOMAIN s) \X (DOMAIN s) :
        /\ r[1] <= r[2]
        /\ \A k \in r[1]..r[2] : s[k] \in AsciiAlnum
        /\ r[1] = 1 \/ s[r[1] - 1] \notin AsciiAlnum
        /\ r[2] = Len(s) \/ s[r[2] + 1] \notin AsciiAlnum}

(* C13: tokenize_upper returns, in order of occurrence, exactly the maximal *)
(* runs of ASCII letters and digits of length at least 2, each upper-cased; *)
(* no token is empty or of length 1, and no token holds another character.  *)
C13_Tokens ==
    tokens # Pending =>
        LET runs == {r \in MaximalRuns(title) : r[2] - r[1] + 1 >= 2}
            nth(k) == CHOOSE r \in runs : Cardinality({q \in runs : q[1] < r[1]}) = k - 1
            out == tokens.value
        IN  /\ ~tokens.raised
            /\ Len(out) = Cardinality(runs)
            /\ \A k \in DOMAIN out :
                /\ Len(out[k]) = nth(k)[2] - nth(k)[1] + 1
                /\ \A j \in DOMAIN out[k] :
                    LET c == title[nth(k)[1] + j - 1]
                    IN  /\ out[k][j] \in AsciiUpper \cup AsciiDigit
                        /\ IF c \in AsciiLower THEN LowerChar(out[k][j]) = c /\ out[k][j] # c
                           ELSE out[k][j] = c
                /\ Len(out[k]) >= 2

\* "a bb c99 d" gave ["BB", "C99"]
C13_Witness ==
    /\ tokens # Pending
    /\ title = TokExample
    /\ tokens.value = << <<"B", "B">>, <<"C", "9", "9">> >>

-----------------------------------------------------------------------------
(* C14: a headline followed by a dash-like character, whitespace and a      *)
(* capitalized word sequence of at least 3 characters normalizes to what    *)
(* the headline alone normalizes to.                                        *)
C14_TrailerStripped ==
    (trailer # <<>> /\ Len(passes) = 2) => passes[2] = passes[1]

-----------------------------------------------------------------------------
-----------------------------------------------------------------------------
(* C16: a malformed line of the persisted log is skipped by every scan of   *)
(* the log: neither the lookup of today's record, nor the rewrite of the    *)
(* forced run, nor the history scan ends a run with the parse error of the  *)
(* line.                                                                    *)
C16_MalformedSkipped ==
    \A s \in Sessions : session[s].error # "JSONDecodeError"

-----------------------------------------------------------------------------
(* C17: in every non-empty term table of summarize_terms each count is an   *)
(* integer of at least 1, each share is the count over the sum of all       *)
(* counts of the full table, which is above 0, and the shares of the full   *)
(* table sum to 1; the rows of the top lists carry the same shares.         *)
C17_ShareNormalization ==
    (Returned(kf) /\ kf.value.tidy_all_terms # <<>>) =>
        LET tidy  == kf.value.tidy_all_terms
            total == SumSeq([k \in DOMAIN tidy |-> tidy[k].count])
            tops  == kf.value.top_unigrams \o kf.value.top_bigrams
        IN  /\ total > 0
            /\ \A k \in DOMAIN tidy :
                /\ tidy[k].count \in Nat
                /\ tidy[k].count >= 1
                /\ tidy[k].share = <<tidy[k].count, total>>
            /\ SumSeq([k \in DOMAIN tidy |-> tidy[k].share[1]]) = total
            /\ \A k \in DOMAIN tops : tops[k].share = <<tops[k].count, total>>

\* a table of three terms of which the top lists hold one unigram and one bigram
C17_Witness ==
    /\ Returned(kf)
    /\ Len(kf.value.tidy_all_terms) = 3
    /\ kf_top_n = 1
    /\ Len(kf.value.top_unigrams) = 1
    /\ Len(kf.value.top_bigrams) = 1
    /\ kf.value.top_unigrams[1].share[2] > kf.value.top_unigrams[1].count

-----------------------------------------------------------------------------
(* C18: no title that normalize_title maps to the empty string is among the *)
(* documents keyword_frequency passes to build_count_matrix.                *)
C18_EmptyNormalizedExcluded ==
    Returned(kf) =>
        \A k \in DOMAIN kf.value.df : kf.value.df[k].title_norm # <<>>

-----------------------------------------------------------------------------
\* the summary field that holds the top lexicon terms of a category
TopLmField ==
    [negative     |-> "top_lm_negative",
     uncertainty  |-> "top_lm_uncertainty",
     litigious    |-> "top_lm_litigious",
     constraining |-> "top_lm_constraining",
     positive     |-> "top_lm_positive"]

\* the words of category c seen in the scored titles, each with the number
\* of its token occurrences over the whole batch
ObservedTerms(c) ==
    LET words == load_lm_lexicon_csv(csvColumns, csvRows).value[c]
        toks  == Concat([k \in DOMAIN scored_df.value |->
                            tokenize_upper(scored_df.value[k].title)])
    IN  {[term  |-> w,
          count |-> Cardinality({j \in DOMAIN toks : toks[j] = w})] :
            w \in words \cap Range(toks)}

\* the stored list of category c is the first 10 observed words of c by
\* descending count, equal counts in ascending order of the word
TopLmOrdered(c) == IsTopOf(store_data.value[TopLmField[c]], ObservedTerms(c), 10)

(* C19: for each of the five categories the summary holds the lexicon words *)
(* of the category seen in the scored titles, each with its number of token *)
(* occurrences over the batch, by descending count, equal counts in         *)
(* ascending lexical order, and at most 10 of them.                         *)
C19_TopLmTerms ==
    Returned(store_data) =>
        \A c \in Categories :
            /\ TopLmField[c] \in DOMAIN store_data.value
            /\ TopLmOrdered(c)

\* the two categories the summary does store, taken alone
StoredTopLmOrdered ==
    Returned(store_data) => TopLmOrdered("negative") /\ TopLmOrdered("positive")

-----------------------------------------------------------------------------
(* C20: a dashboard session of the non-forced path that reports "Data saved *)
(* to JSONL" has its record in the remote log: a session whose PUT was      *)
(* rejected for a stale sha does not report success.                        *)
C20_SavedMeansStored ==
    \A s \in Sessions :
        (~session[s].force_rescrape /\ session[s].status = StatusSaved) =>
            \E k \in DOMAIN remote_file.content :
                remote_file.content[k] = session[s].stored_data

-----------------------------------------------------------------------------
(* C21: the history scan reads every record a successful daily run has      *)
(* stored without an error; a record whose top_bigrams list is empty does   *)
(* not make the history view fail with an IndexError.                       *)
C21_HistoryScanTotal ==
    \A s \in Sessions :
        ~(session[s].pc = "failed" /\ session[s].error = "IndexError")

=============================================================================
